---- MODULE Spec2Model ----
(***************************************************************************)
(* lambda-janitor: the scheduled cleanup of old, unused Lambda versions    *)
(* (src/lambda_janitor/main.py).                                           *)
(*                                                                         *)
(* Time is counted in whole days.  A Python datetime is a record           *)
(* [t, tzinfo]: tzinfo = "None" is a naive datetime, tzinfo = "UTC" an     *)
(* aware one.  A registry LastModified string is a record [date, z]: the   *)
(* date and time digits, and the UTC-offset suffix that follows them       *)
(* ("+0000", or "" when the string carries none).  A call that may raise   *)
(* returns a record [exc, value]; exc = "None" means it returned value.    *)
(***************************************************************************)
EXTENDS Integers, Sequences, FiniteSets, TLC

VARIABLES
    registry,          \* function names, in list_functions order
    versions,          \* function name -> its versions, in list_versions order
    metrics,           \* <<function, version>> -> what get_metric_statistics answers
    deleteDenied,      \* TRUE: the registry refuses delete_function
    EMAIL_SENDER,      \* os.getenv("EMAIL_SENDER"): <<>> is None, <<s>> is the string s
    EMAIL_RECIPIENTS,  \* os.getenv("EMAIL_RECIPIENTS", "").split(",")
    pc,                \* where lambda_handler stands
    run,               \* number of runs started
    prevDone,          \* the run before this one completed
    cutoff_date,
    alert_date,
    alert_versions,
    deleted_versions,
    functions,         \* functions of the page not yet finished, current one first
    version_queue,     \* versions of the current function not yet evaluated
    listed,            \* this run: <<function, version record>> returned by list_versions
    evaluated,         \* this run: <<function, version record>> whose loop body completed
    enumFailed,        \* this run: a listing call raised
    raised,            \* this run: the exception lambda_handler re-raised, or "None"
    deleteRequests,    \* every delete_function call issued: <<function, version record>>
    sesCalls           \* this run: the send_email calls issued

vars == << registry, versions, metrics, deleteDenied, EMAIL_SENDER, EMAIL_RECIPIENTS,
           pc, run, prevDone, cutoff_date, alert_date, alert_versions,
           deleted_versions, functions, version_queue, listed, evaluated,
           enumFailed, raised, deleteRequests, sesCalls >>

(***************************************************************************)
(* Configuration and bounds                                                *)
(***************************************************************************)
RETENTION_DAYS == 30
ALERT_DAYS == 7

MaxFunctions == 2
MaxVersions == 2
MaxRuns == 2

\* The day datetime.now() reads; only differences of days matter.
NowDay == 2 * RETENTION_DAYS
CutoffDay == NowDay - RETENTION_DAYS
AlertDay == NowDay - (RETENTION_DAYS - ALERT_DAYS)

None == << >>
Some(x) == << x >>

(***************************************************************************)
(* Python library semantics used by the handler                            *)
(***************************************************************************)
Returned(v) == [exc |-> "None", value |-> v]
Raised(e, dummy) == [exc |-> e, value |-> dummy]

\* datetime.now(): called without a tz argument, so the result is naive.
datetime_now == [t |-> NowDay, tzinfo |-> "None"]

\* datetime - timedelta(days=n): keeps tzinfo.
minus_days(dt, n) == [dt EXCEPT !.t = @ - n]

\* datetime.strptime(s, '%Y-%m-%dT%H:%M:%S.%f%z'): %z must match an offset;
\* the result carries that offset, so it is an aware datetime.
strptime(s) ==
    IF s.z = ""
    THEN Raised("ValueError", datetime_now)
    ELSE Returned([t |-> s.date, tzinfo |-> "UTC"])

\* Faulty orderings (used to test that the properties below depend on DtCmp).
\* The instants compared without regard to tzinfo and with the operands swapped:
DtCmpSwapped(a, b) ==
    Returned(IF b.t < a.t THEN -1 ELSE IF a.t = b.t THEN 0 ELSE 1)
\* The instants compared without regard to tzinfo, equal ones ordered as greater:
DtCmpNoEqual(a, b) ==
    Returned(IF a.t < b.t THEN -1 ELSE 1)

\* datetime ordering: comparing a naive with an aware datetime raises TypeError.
DtCmp(a, b) ==
    IF (a.tzinfo = "None") # (b.tzinfo = "None")
    THEN Raised("TypeError", 0)
    ELSE Returned(IF a.t < b.t THEN -1 ELSE IF a.t = b.t THEN 0 ELSE 1)

DtGT(a, b) ==
    LET c == DtCmp(a, b)
    IN  IF c.exc # "None" THEN Raised(c.exc, FALSE) ELSE Returned(c.value > 0)

DtLE(a, b) ==
    LET c == DtCmp(a, b)
    IN  IF c.exc # "None" THEN Raised(c.exc, FALSE) ELSE Returned(c.value <= 0)

\* last_modified.strftime('%Y-%m-%d'): the date alone, the offset is dropped.
strftime(dt) == dt.t

RECURSIVE SumSeq(_)
SumSeq(s) == IF s = << >> THEN 0 ELSE Head(s) + SumSeq(Tail(s))

\* str.split(","): a string is a sequence of characters; "" splits to [""].
RECURSIVE SplitComma(_)
SplitComma(s) ==
    IF s = << >> THEN << << >> >>
    ELSE LET rest == SplitComma(Tail(s))
         IN  IF Head(s) = ","
             THEN << << >> >> \o rest
             ELSE << << Head(s) >> \o Head(rest) >> \o Tail(rest)

\* Python truthiness of an optional string and of a list.
TruthyOpt(o) == o # None /\ o[1] # << >>
TruthyList(l) == l # << >>

(***************************************************************************)
(* The handler's helpers                                                   *)
(***************************************************************************)
\* get_invocation_count: the sum of the datapoints; 0 when the read raises.
get_invocation_count(response) ==
    IF response.exc # "None" THEN 0 ELSE SumSeq(response.Datapoints)

\* Lines 73-88: what the loop body decides for one version.
Evaluate(version, cutoff, alert, response) ==
    IF version.Version = "$LATEST" THEN "latest"
    ELSE LET lm == strptime(version.LastModified)
         IN  IF lm.exc # "None" THEN lm.exc
             ELSE LET gt == DtGT(lm.value, cutoff)
                  IN  IF gt.exc # "None" THEN gt.exc
                      ELSE IF gt.value
                      THEN LET le == DtLE(lm.value, alert)
                           IN  IF le.exc # "None" THEN le.exc
                               ELSE IF le.value THEN "alert" ELSE "recent"
                      ELSE IF get_invocation_count(response) > 0
                           THEN "invoked"
                           ELSE "delete"

Exceptions == {"ValueError", "TypeError", "ClientError"}

RECURSIVE Without(_, _)
Without(s, id) ==
    IF s = << >> THEN << >>
    ELSE IF Head(s).Version = id THEN Without(Tail(s), id)
         ELSE << Head(s) >> \o Without(Tail(s), id)

\* delete_lambda_version: delete_function removes the version; a refusal is
\* caught and logged, and the caller sees no difference.
delete_lambda_version(vs, function_name, version, denied) ==
    IF denied THEN vs
    ELSE [vs EXCEPT ![function_name] = Without(@, version)]

Rows(list) == [i \in 1..Len(list) |-> << list[i][1], list[i][2], strftime(list[i][3]) >>]

\* send_cleanup_alert: the send_email calls it issues (none or one).
send_cleanup_alert(alerts, deleted, sender, recipients) ==
    IF ~TruthyList(recipients) \/ ~TruthyOpt(sender) THEN << >>
    ELSE << [Source |-> sender[1],
             ToAddresses |-> recipients,
             Deleted |-> IF TruthyList(deleted) THEN Rows(deleted) ELSE << >>,
             Alerts |-> IF TruthyList(alerts) THEN Rows(alerts) ELSE << >>] >>

\* Line 94: whether the handler calls send_cleanup_alert.
ShouldNotify(alerts, deleted) == TruthyList(alerts) \/ TruthyList(deleted)

(***************************************************************************)
(* Initial states                                                          *)
(***************************************************************************)
Names == << "alpha", "beta", "gamma", "delta" >>
VersionIds == << "1", "2", "3", "4" >>
\* The UTC-offset suffix of every LastModified the registry returns.
RegistryOffset == "+0000"
\* Last-modified days on both sides of the cutoff and of the alert threshold.
Days == {CutoffDay - 1, CutoffDay, CutoffDay + 1, AlertDay, AlertDay + 1}

Responses ==
    { [exc |-> "ClientError", Datapoints |-> << >>],
      [exc |-> "None", Datapoints |-> << >>],
      [exc |-> "None", Datapoints |-> << 1 >>] }

Latest(z) == [Version |-> "$LATEST", LastModified |-> [date |-> NowDay, z |-> z]]

\* list_versions_by_function: $LATEST first, then the published versions.
VersionLists(z) ==
    UNION { { << Latest(z) >> \o
              [i \in 1..n |-> [Version |-> VersionIds[i],
                               LastModified |-> [date |-> d[i], z |-> z]]]
              : d \in [1..n -> Days] }
            : n \in 0..MaxVersions }

RECURSIVE Published(_, _)
Published(vs, names) ==
    IF names = << >> THEN 0
    ELSE (Len(vs[Head(names)]) - 1) + Published(vs, Tail(names))

Range(s) == {s[i] : i \in 1..Len(s)}

\* The published versions: the Resource dimensions the metrics store knows.
VersionKeys(vs, names) ==
    UNION { { << f, vs[f][i].Version >> : i \in 2..Len(vs[f]) } : f \in Range(names) }

\* get_metric_statistics for one version; no datapoints for an unknown resource.
MetricResponse(function_name, version) ==
    IF << function_name, version >> \in DOMAIN metrics
    THEN metrics[<< function_name, version >>]
    ELSE [exc |-> "None", Datapoints |-> << >>]

Idle ==
    /\ pc = "idle"
    /\ run = 0
    /\ prevDone = FALSE
    /\ cutoff_date = datetime_now
    /\ alert_date = datetime_now
    /\ alert_versions = << >>
    /\ deleted_versions = << >>
    /\ functions = << >>
    /\ version_queue = << >>
    /\ listed = << >>
    /\ evaluated = << >>
    /\ enumFailed = FALSE
    /\ raised = "None"
    /\ deleteRequests = << >>
    /\ sesCalls = << >>

Init ==
    /\ registry \in {SubSeq(Names, 1, k) : k \in 0..MaxFunctions}
    /\ versions \in {vs \in [Range(registry) -> VersionLists(RegistryOffset)] :
                       Published(vs, registry) <= MaxVersions}
    /\ metrics \in [VersionKeys(versions, registry) -> Responses]
    /\ deleteDenied \in BOOLEAN
    /\ \E cfg \in { << None, << >> >>, << Some(<< "s" >>), << "r" >> >> } :
         /\ EMAIL_SENDER = cfg[1]
         /\ EMAIL_RECIPIENTS = SplitComma(cfg[2])
    /\ Idle

(***************************************************************************)
(* lambda_handler, one step at a time                                      *)
(***************************************************************************)
env == << registry, metrics, deleteDenied, EMAIL_SENDER, EMAIL_RECIPIENTS >>

\* Lines 50-61.
StartRun ==
    /\ pc \in {"idle", "done", "aborted"}
    /\ run < MaxRuns
    /\ run' = run + 1
    /\ prevDone' = (pc = "done")
    /\ cutoff_date' = minus_days(datetime_now, RETENTION_DAYS)
    /\ alert_date' = minus_days(datetime_now, RETENTION_DAYS - ALERT_DAYS)
    /\ alert_versions' = << >>
    /\ deleted_versions' = << >>
    /\ functions' = << >>
    /\ version_queue' = << >>
    /\ listed' = << >>
    /\ evaluated' = << >>
    /\ enumFailed' = FALSE
    /\ raised' = "None"
    /\ sesCalls' = << >>
    /\ pc' = "list_functions"
    /\ UNCHANGED << env, versions, deleteRequests >>

\* Lines 99-101: log and re-raise.
Abort(e) ==
    /\ pc' = "aborted"
    /\ raised' = e

\* Lines 63-64: the list_functions page; the call may raise.
ListFunctions ==
    /\ pc = "list_functions"
    /\ \E ok \in BOOLEAN :
         IF ok
         THEN /\ functions' = registry
              /\ pc' = IF registry = << >> THEN "notify" ELSE "list_versions"
              /\ UNCHANGED << raised, enumFailed >>
         ELSE /\ Abort("ClientError")
              /\ enumFailed' = TRUE
              /\ UNCHANGED functions
    /\ UNCHANGED << env, versions, run, prevDone, cutoff_date, alert_date,
                    alert_versions, deleted_versions, version_queue, listed,
                    evaluated, deleteRequests, sesCalls >>

\* Where the loops stand once the version queue is q and the function list fs.
AfterQueue(q, fs) ==
    IF q # << >> THEN << "evaluate", fs >>
    ELSE IF Tail(fs) # << >> THEN << "list_versions", Tail(fs) >>
    ELSE << "notify", << >> >>

\* Lines 65-71: the list_versions_by_function page of the current function.
ListVersions ==
    /\ pc = "list_versions"
    /\ \E ok \in BOOLEAN :
         IF ok
         THEN LET fn == Head(functions)
                  page == versions[fn]
                  nxt == AfterQueue(page, functions)
              IN  /\ version_queue' = page
                  /\ listed' = listed \o [i \in 1..Len(page) |-> << fn, page[i] >>]
                  /\ pc' = nxt[1]
                  /\ functions' = nxt[2]
                  /\ UNCHANGED << raised, enumFailed >>
         ELSE /\ Abort("ClientError")
              /\ enumFailed' = TRUE
              /\ UNCHANGED << version_queue, listed, functions >>
    /\ UNCHANGED << env, versions, run, prevDone, cutoff_date, alert_date,
                    alert_versions, deleted_versions, evaluated, deleteRequests,
                    sesCalls >>

\* Lines 72-92: the loop body for the next version.
ProcessVersion ==
    /\ pc = "evaluate"
    /\ version_queue # << >>
    /\ LET fn == Head(functions)
           version == Head(version_queue)
           outcome == Evaluate(version, cutoff_date, alert_date,
                               MetricResponse(fn, version.Version))
           entry == << fn, version.Version, strptime(version.LastModified).value >>
           nxt == AfterQueue(Tail(version_queue), functions)
       IN  IF outcome \in Exceptions
           THEN /\ Abort(outcome)
                /\ UNCHANGED << versions, alert_versions, deleted_versions,
                                functions, version_queue, evaluated, deleteRequests >>
           ELSE /\ alert_versions' = IF outcome = "alert"
                                     THEN Append(alert_versions, entry)
                                     ELSE alert_versions
                /\ deleted_versions' = IF outcome = "delete"
                                       THEN Append(deleted_versions, entry)
                                       ELSE deleted_versions
                /\ deleteRequests' = IF outcome = "delete"
                                     THEN Append(deleteRequests, << fn, version >>)
                                     ELSE deleteRequests
                /\ versions' = IF outcome = "delete"
                               THEN delete_lambda_version(versions, fn, version.Version,
                                                          deleteDenied)
                               ELSE versions
                /\ version_queue' = Tail(version_queue)
                /\ evaluated' = Append(evaluated, << fn, version >>)
                /\ pc' = nxt[1]
                /\ functions' = nxt[2]
                /\ UNCHANGED raised
    /\ UNCHANGED << env, run, prevDone, cutoff_date, alert_date, listed, enumFailed,
                    sesCalls >>

\* Lines 94-97: the summary notification.  sesCalls records the send_email
\* calls issued; a call that fails is caught and logged inside
\* send_cleanup_alert and changes nothing else.
Notify ==
    /\ pc = "notify"
    /\ sesCalls' = IF ShouldNotify(alert_versions, deleted_versions)
                   THEN send_cleanup_alert(alert_versions, deleted_versions,
                                           EMAIL_SENDER, EMAIL_RECIPIENTS)
                   ELSE << >>
    /\ pc' = "done"
    /\ UNCHANGED << env, versions, run, prevDone, cutoff_date, alert_date,
                    alert_versions, deleted_versions, functions, version_queue,
                    listed, evaluated, enumFailed, raised, deleteRequests >>

Next == StartRun \/ ListFunctions \/ ListVersions \/ ProcessVersion \/ Notify

Spec == Init /\ [][Next]_vars

(***************************************************************************)
(* send_cleanup_alert on its own: the module constants read from the       *)
(* environment, and the function applied to two lists.                     *)
(***************************************************************************)
MaxEnvLen == 2
MaxRows == 1

RECURSIVE StringsUpTo(_)
StringsUpTo(n) ==
    IF n = 0 THEN { << >> }
    ELSE LET shorter == StringsUpTo(n - 1)
         IN  shorter \cup { Append(s, c) : s \in shorter, c \in {"r", ","} }

RECURSIVE ListsUpTo(_, _)
ListsUpTo(S, n) ==
    IF n = 0 THEN { << >> }
    ELSE LET shorter == ListsUpTo(S, n - 1)
         IN  shorter \cup { Append(l, e) : l \in shorter, e \in S }

Entries ==
    { << "alpha", VersionIds[i], [t |-> d, tzinfo |-> "UTC"] >> :
        i \in {1}, d \in {CutoffDay, AlertDay} }

InitAlert ==
    /\ registry = << >>
    /\ versions = << >>
    /\ metrics = << >>
    /\ deleteDenied = FALSE
    /\ EMAIL_SENDER \in {None, Some(<< >>), Some(<< "s" >>)}
    /\ \E e \in StringsUpTo(MaxEnvLen) : EMAIL_RECIPIENTS = SplitComma(e)
    /\ pc = "alert_call"
    /\ run = 0
    /\ prevDone = FALSE
    /\ cutoff_date = datetime_now
    /\ alert_date = datetime_now
    /\ alert_versions \in ListsUpTo(Entries, MaxRows)
    /\ deleted_versions \in ListsUpTo(Entries, MaxRows)
    /\ functions = << >>
    /\ version_queue = << >>
    /\ listed = << >>
    /\ evaluated = << >>
    /\ enumFailed = FALSE
    /\ raised = "None"
    /\ deleteRequests = << >>
    /\ sesCalls = << >>

\* send_cleanup_alert(alert_versions, deleted_versions), lines 137-174.
SendCleanupAlert ==
    /\ pc = "alert_call"
    /\ sesCalls' = send_cleanup_alert(alert_versions, deleted_versions,
                                      EMAIL_SENDER, EMAIL_RECIPIENTS)
    /\ pc' = "alert_returned"
    /\ UNCHANGED << env, versions, run, prevDone, cutoff_date, alert_date,
                    alert_versions, deleted_versions, functions, version_queue,
                    listed, evaluated, enumFailed, raised, deleteRequests >>

NextAlert == SendCleanupAlert

SpecAlert == InitAlert /\ [][NextAlert]_vars

(***************************************************************************)
(* Properties                                                              *)
(***************************************************************************)
Terminal == pc \in {"done", "aborted"}

Sentinel(v) == v.Version = "$LATEST"
Old(v) == v.LastModified.date <= CutoffDay

InRegistry(f, v) == \E i \in 1..Len(versions[f]) : versions[f][i] = v

\* The Invocations sum the metrics store holds for a listed version.
Unreadable(l) == MetricResponse(l[1], l[2].Version).exc # "None"
Invocations(l) == SumSeq(MetricResponse(l[1], l[2].Version).Datapoints)

Ids(list) == { << list[i][1], list[i][2] >> : i \in 1..Len(list) }

\* C1: no delete request is ever issued for $LATEST or for a version last
\* modified strictly after the cutoff, and such a version, once listed in a
\* run, is still in the registry.
C1_NeverDeletesLatestOrRecent ==
    /\ \A i \in 1..Len(deleteRequests) :
         /\ ~Sentinel(deleteRequests[i][2])
         /\ ~(deleteRequests[i][2].LastModified.date > CutoffDay)
    /\ \A i \in 1..Len(listed) :
         (Sentinel(listed[i][2]) \/ listed[i][2].LastModified.date > CutoffDay)
            => InRegistry(listed[i][1], listed[i][2])

\* A run has ended that listed $LATEST and a version newer than the cutoff,
\* after evaluating $LATEST.
C1_Witness ==
    /\ Terminal
    /\ \E i \in 1..Len(evaluated) : Sentinel(evaluated[i][2])
    /\ \E i \in 1..Len(listed) :
         ~Sentinel(listed[i][2]) /\ listed[i][2].LastModified.date > CutoffDay

\* C2: when a run has ended, every listed published version that is old and
\* has a readable invocation sum of zero is gone from the registry and is in
\* deleted_versions.
C2_OldUnusedAlwaysDeleted ==
    Terminal =>
      \A i \in 1..Len(listed) :
        (~Sentinel(listed[i][2]) /\ Old(listed[i][2])
           /\ ~Unreadable(listed[i]) /\ Invocations(listed[i]) = 0)
          => /\ ~InRegistry(listed[i][1], listed[i][2])
             /\ << listed[i][1], listed[i][2].Version >> \in Ids(deleted_versions)

\* C3: an old version with a nonzero invocation sum is never the object of a
\* delete request, never in deleted_versions, never in alert_versions, and
\* stays in the registry.
C3_InvokedNeverDeletedNorAlerted ==
    \A i \in 1..Len(listed) :
      (~Sentinel(listed[i][2]) /\ Old(listed[i][2])
         /\ ~Unreadable(listed[i]) /\ Invocations(listed[i]) > 0)
        => /\ InRegistry(listed[i][1], listed[i][2])
           /\ << listed[i][1], listed[i][2].Version >> \notin Ids(deleted_versions)
           /\ << listed[i][1], listed[i][2].Version >> \notin Ids(alert_versions)
           /\ \A j \in 1..Len(deleteRequests) : deleteRequests[j] # listed[i]

\* A run has ended that listed an old version with invocations in the window.
C3_Witness ==
    /\ Terminal
    /\ \E i \in 1..Len(listed) :
         /\ ~Sentinel(listed[i][2]) /\ Old(listed[i][2])
         /\ ~Unreadable(listed[i]) /\ Invocations(listed[i]) > 0

\* C5: when a run has ended that no listing failure aborted and the registry
\* refuses the deletion of an eligible version, that version is not in
\* deleted_versions, every version listed after it has been evaluated and
\* every function of the registry has had its versions listed.
C5_DeleteFailureIsolated ==
    (Terminal /\ ~enumFailed /\ deleteDenied) =>
      \A i \in 1..Len(listed) :
        (~Sentinel(listed[i][2]) /\ Old(listed[i][2])
           /\ (Unreadable(listed[i]) \/ Invocations(listed[i]) = 0))
          => /\ << listed[i][1], listed[i][2].Version >> \notin Ids(deleted_versions)
             /\ \A j \in (i + 1)..Len(listed) : listed[j] \in Range(evaluated)
             /\ \A f \in Range(registry) : \E j \in 1..Len(listed) : listed[j][1] = f

\* C6: when EMAIL_SENDER is unset or EMAIL_RECIPIENTS is left at its default
\* and one of the lists is non-empty, send_cleanup_alert issues no send_email.
C6_MissingConfigSendsNothing ==
    ( /\ pc = "alert_returned"
      /\ ShouldNotify(alert_versions, deleted_versions)
      /\ (EMAIL_SENDER = None \/ EMAIL_RECIPIENTS = SplitComma(<< >>)) )
      => sesCalls = << >>

\* C9: when a run has ended that no listing failure aborted, every listed old
\* version whose metric read fails has had a delete request issued, and the
\* run was not aborted.
C9_UnreadableMetricDeletes ==
    (Terminal /\ ~enumFailed) =>
      \A i \in 1..Len(listed) :
        (~Sentinel(listed[i][2]) /\ Old(listed[i][2]) /\ Unreadable(listed[i]))
          => /\ pc = "done"
             /\ \E j \in 1..Len(deleteRequests) : deleteRequests[j] = listed[i]

\* C10: a run is aborted exactly when a listing call has failed.
C10_AbortIffListingFails ==
    (pc = "aborted") <=> enumFailed

====
